---- MODULE Spec2Model ----
(***************************************************************************)
(* Recruitment AI service: the FastAPI application (fastapi/app/main.py)   *)
(* and its processing layer (fastapi/app/core/processing.py).              *)
(*                                                                         *)
(* The model follows one process: the lifespan start-up (the two model     *)
(* availability checks), then requests handled one after the other.  A    *)
(* request walks through its endpoint's calls into the processing layer;   *)
(* an exception leaves the endpoint and is turned into a response by the   *)
(* registered exception handlers.  Everything the outside world decides    *)
(* (the answer of the resume URL, of the model host, the request body) is  *)
(* chosen nondeterministically from small sets.                            *)
(*                                                                         *)
(* Strings the code inspects character by character (strip, split, upper,  *)
(* startswith) are sequences of one-character strings.                     *)
(***************************************************************************)
EXTENDS Integers, Sequences, FiniteSets, TLC

(***************************************************************************)
(* Bounds of the model.                                                    *)
(***************************************************************************)
MaxInputLen == 2      \* longest request string, in characters
MaxPostings == 2      \* longest posting-bulk list
MaxModels == 2        \* longest model list answered by /api/tags

(***************************************************************************)
(* Python string operations, on sequences of characters.                   *)
(***************************************************************************)
Whitespace == {" ", "\t", "\n"}

RECURSIVE lstrip(_)
lstrip(s) ==
    IF s # <<>> /\ Head(s) \in Whitespace THEN lstrip(Tail(s)) ELSE s

RECURSIVE rstrip(_)
rstrip(s) ==
    IF s # <<>> /\ s[Len(s)] \in Whitespace
    THEN rstrip(SubSeq(s, 1, Len(s) - 1))
    ELSE s

\* str.strip(): leading and trailing whitespace removed
strip(s) == rstrip(lstrip(s))

upper_char(c) ==
    CASE c = "n" -> "N"
      [] c = "o" -> "O"
      [] c = "e" -> "E"
      [] c = "a" -> "A"
      [] c = "b" -> "B"
      [] OTHER -> c

\* str.upper()
upper(s) == [i \in 1..Len(s) |-> upper_char(s[i])]

\* str.split(','): the pieces between the commas, empty pieces included
RECURSIVE split_from(_, _, _)
split_from(s, i, cur) ==
    IF i > Len(s) THEN <<cur>>
    ELSE IF s[i] = "," THEN <<cur>> \o split_from(s, i + 1, <<>>)
    ELSE split_from(s, i + 1, Append(cur, s[i]))

split(s) == split_from(s, 1, <<>>)

\* str.startswith(prefix)
startswith(s, prefix) ==
    /\ Len(prefix) <= Len(s)
    /\ SubSeq(s, 1, Len(prefix)) = prefix

\* Python truthiness of a str: `not s` is true exactly for the empty string
falsy(s) == s = <<>>

\* a variant that tests x.strip() but keeps x as it is
RECURSIVE nonempty_unstripped(_)
nonempty_unstripped(parts) ==
    IF parts = <<>> THEN <<>>
    ELSE IF falsy(strip(Head(parts))) THEN nonempty_unstripped(Tail(parts))
    ELSE <<Head(parts)>> \o nonempty_unstripped(Tail(parts))

\* [x.strip() for x in s.split(',') if x.strip()]
RECURSIVE stripped_nonempty(_)
stripped_nonempty(parts) ==
    IF parts = <<>> THEN <<>>
    ELSE IF falsy(strip(Head(parts))) THEN stripped_nonempty(Tail(parts))
    ELSE <<strip(Head(parts))>> \o stripped_nonempty(Tail(parts))

\* all sequences over S of length at most n
SeqsUpTo(S, n) == UNION {[1..k -> S] : k \in 0..n}


(***************************************************************************)
(* Exceptions.  An exception is its class and its message.                 *)
(***************************************************************************)
NoExc == [cls |-> "", message |-> ""]

Exc(cls, message) == [cls |-> cls, message |-> message]

\* httpx.RequestError and its subclasses: the request got no response
RequestErrors == {"ConnectError", "ReadTimeout"}

\* the non-2xx answers; Response.raise_for_status() raises
\* httpx.HTTPStatusError for them, which is not a httpx.RequestError
ErrorStatuses == {"HTTP404", "HTTP500"}

\* what can happen to one HTTP call
Transports == RequestErrors \cup ErrorStatuses \cup {"OK"}

\* core/exceptions.py: the AppError classes and their class attributes
AppErrors ==
    {"AppError", "InvalidRequestError", "EmptyStringError",
     "UnsupportedMediaTypeError", "UnprocessableContentError"}

status_code(cls) ==
    CASE cls = "InvalidRequestError" -> 400
      [] cls = "EmptyStringError" -> 400
      [] cls = "UnsupportedMediaTypeError" -> 415
      [] cls = "UnprocessableContentError" -> 422
      [] OTHER -> 500

error_code(cls) ==
    CASE cls = "InvalidRequestError" -> "INVALID_REQUEST"
      [] cls = "EmptyStringError" -> "EMPTY_STRING"
      [] cls = "UnsupportedMediaTypeError" -> "UNSUPPORTED_FILE_TYPE"
      [] cls = "UnprocessableContentError" -> "UNPROCESSABLE_CONTENT"
      [] OTHER -> "INTERNAL_SERVER_ERROR"

default_message(cls) ==
    CASE cls = "InvalidRequestError" -> "given request is not valid"
      [] cls = "EmptyStringError" -> "given string is not valid"
      [] cls = "UnsupportedMediaTypeError" -> "only pdf files are supported"
      [] cls = "UnprocessableContentError" -> "file is corrupt"
      [] OTHER -> "unexpected error occured"

\* AppError.__init__: the class message unless a non-empty one is given
AppErrorOf(cls, message) ==
    Exc(cls, IF message # "" THEN message ELSE default_message(cls))

(***************************************************************************)
(* The result of a call into the processing layer: it returns a value or   *)
(* raises, and it has issued `calls` to the model host on the way and      *)
(* invoked the department resolver `resolver` times.                       *)
(***************************************************************************)
Return(value, calls, resolver) ==
    [kind |-> "return", value |-> <<value>>, exc |-> NoExc,
     calls |-> calls, resolver |-> resolver]

Raise(exc, calls, resolver) ==
    [kind |-> "raise", value |-> <<>>, exc |-> exc,
     calls |-> calls, resolver |-> resolver]

\* the exception of a failed HTTP call as it leaves a block of the form
\*   try: ... raise_for_status() ... except httpx.RequestError: raise wrapped
\* the wrapped one for a RequestError, the HTTPStatusError itself otherwise
except_RequestError(t, wrapped) ==
    IF t \in RequestErrors THEN wrapped
    ELSE Exc("HTTPStatusError", "Client or server error response")

(***************************************************************************)
(* The unified error JSON and the exception handlers of main.py.           *)
(***************************************************************************)
error_json(code, errorCode, message) ==
    [status_code |-> code,
     content |-> [status |-> IF code < 500 THEN "VALIDATION_ERROR" ELSE "ERROR",
                  errorCode |-> errorCode,
                  message |-> message]]

app_error_handler(exc) ==
    error_json(status_code(exc.cls), error_code(exc.cls), exc.message)

req_validation_handler(exc) ==
    error_json(400, "INVALID_REQUEST", "given url is not valid")

unhandled_handler(exc) ==
    error_json(500, "INTERNAL_SERVER_ERROR", "unexpected error occured")

\* the handler registered for the class of exc (the nearest class in its
\* method resolution order that has one); no code of the application raises
\* fastapi.HTTPException, so http_exc_handler is never the one
handle(exc) ==
    IF exc.cls \in AppErrors THEN app_error_handler(exc)
    ELSE IF exc.cls = "RequestValidationError" THEN req_validation_handler(exc)
    ELSE unhandled_handler(exc)

(***************************************************************************)
(* processing.py: the resume download and the PDF text.                    *)
(***************************************************************************)
\* what the resume URL can serve
PdfBytes == {"pdf_with_text", "pdf_without_text", "not_a_pdf"}

\* download_and_validate_cv: t is what happened to the GET, content the body
download_and_validate_cv(t, content) ==
    IF t = "OK" THEN Return(content, <<>>, 0)
    ELSE Raise(except_RequestError(t,
                   AppErrorOf("InvalidRequestError", "given url is not valid: <url>")),
               <<>>, 0)

\* the text fitz reads from the pages of a document it could open
page_text(pdf_bytes) ==
    IF pdf_bytes = "pdf_with_text" THEN <<"c", "v">> ELSE <<" ", "\n">>

\* parse_pdf_text: both raises end in the handler of `except Exception`
parse_pdf_text(pdf_bytes) ==
    IF pdf_bytes = "not_a_pdf"
    THEN Raise(AppErrorOf("UnprocessableContentError",
                          "File is corrupt or not a valid PDF: <fitz error>"), <<>>, 0)
    ELSE IF falsy(strip(page_text(pdf_bytes)))
    THEN Raise(AppErrorOf("UnprocessableContentError",
                          "File is corrupt or not a valid PDF: PDF contains no extractable text."),
               <<>>, 0)
    ELSE Return(page_text(pdf_bytes), <<>>, 0)

(***************************************************************************)
(* processing.py: skill extraction.  An answer of /api/generate is         *)
(* [t, b, text]: the transport outcome t, and for a 2xx answer the body:   *)
(* b = "nojson" (not JSON), "nokey" (JSON without "response") or "text"    *)
(* (JSON whose "response" is text).                                        *)
(***************************************************************************)
NONE == <<"N", "O", "N", "E">>

\* line 103: the technical-skill list
tech_skills_of(tech_skills_str) == stripped_nonempty(split(tech_skills_str))


\* a variant that compares with 'NONE' without upper()
soft_skills_case_sensitive(soft_skills_str) ==
    IF soft_skills_str = NONE THEN <<>>
    ELSE stripped_nonempty(split(soft_skills_str))

\* lines 105-108: the soft-skill list
soft_skills_of(soft_skills_str) ==
    IF upper(soft_skills_str) = NONE THEN <<>>
    ELSE stripped_nonempty(split(soft_skills_str))

\* response.json().get("response", "").strip()
response_str(answer) == strip(IF answer.b = "nokey" THEN <<>> ELSE answer.text)

skills_failure ==
    Exc("Exception", "Failed to communicate with Ollama for skills extraction: <e>")

json_failure == Exc("JSONDecodeError", "Expecting value")


\* a variant that keeps the technical skills when the soft-skill call fails
extract_skills_keeping_partial(tech, soft) ==
    IF tech.t # "OK"
    THEN Raise(except_RequestError(tech.t, skills_failure), <<"generate">>, 0)
    ELSE IF tech.b = "nojson" THEN Raise(json_failure, <<"generate">>, 0)
    ELSE IF soft.t # "OK" \/ soft.b = "nojson"
    THEN Return([tech_skills |-> tech_skills_of(response_str(tech)),
                 soft_skills |-> <<>>],
                <<"generate", "generate">>, 0)
    ELSE Return([tech_skills |-> tech_skills_of(response_str(tech)),
                 soft_skills |-> soft_skills_of(response_str(soft))],
                <<"generate", "generate">>, 0)

extract_skills_from_text(tech, soft) ==
    IF tech.t # "OK"
    THEN Raise(except_RequestError(tech.t, skills_failure), <<"generate">>, 0)
    ELSE IF tech.b = "nojson" THEN Raise(json_failure, <<"generate">>, 0)
    ELSE IF soft.t # "OK"
    THEN Raise(except_RequestError(soft.t, skills_failure),
               <<"generate", "generate">>, 0)
    ELSE IF soft.b = "nojson"
    THEN Raise(json_failure, <<"generate", "generate">>, 0)
    ELSE Return([tech_skills |-> tech_skills_of(response_str(tech)),
                 soft_skills |-> soft_skills_of(response_str(soft))],
                <<"generate", "generate">>, 0)

(***************************************************************************)
(* processing.py: embeddings.  An answer is [t, b, vec]: b = "nojson",     *)
(* "nokey" (JSON without the vector key) or "vec".                         *)
(***************************************************************************)
embedding_failure ==
    Exc("Exception", "Failed to communicate with Ollama for embedding: <e>")

\* a guard-style variant that absorbs the failure of the embedding call
embedding_call_absorbing(path, answer) ==
    IF answer.t # "OK" \/ answer.b # "vec"
    THEN Return([t |-> "list", v |-> <<>>], <<path>>, 0)
    ELSE Return(answer.vec, <<path>>, 0)

\* the shared body of the three embedding functions: one POST to `path`,
\* raise_for_status, then response.json()[key]
embedding_call(path, answer) ==
    IF answer.t # "OK"
    THEN Raise(except_RequestError(answer.t, embedding_failure), <<path>>, 0)
    ELSE IF answer.b = "nojson" THEN Raise(json_failure, <<path>>, 0)
    ELSE IF answer.b = "nokey"
    THEN Raise(Exc("KeyError", "embedding"), <<path>>, 0)
    ELSE Return(answer.vec, <<path>>, 0)

generate_embedding_from_text(answer) == embedding_call("embeddings", answer)

generate_posting_vector(answer) == embedding_call("embeddings", answer)

generate_embedding_from_postings(answer) == embedding_call("embed", answer)

(***************************************************************************)
(* processing.py: the chat calls.  An answer of /api/chat is               *)
(* [t, b, content]: b = "nojson", "nomessage" (JSON without "message"),    *)
(* "nocontent" (a message without "content"), "nullcontent" (a content of  *)
(* null) or "content".  A content is its text together with what           *)
(* json.loads makes of that text: [text, kind, obj] with kind "invalid"    *)
(* (not JSON), "array" or "object" (obj is then the decoded dict).         *)
(***************************************************************************)
JAbsent == [t |-> "absent", v |-> ""]
JNull == [t |-> "null", v |-> ""]
JStr(v) == [t |-> "str", v |-> v]
JNum(v) == [t |-> "num", v |-> v]

Content(text, kind, obj) == [text |-> text, kind |-> kind, obj |-> obj]

\* response.json().get("message", {}).get("content", "") of a 2xx JSON answer
\* whose content is not null
content_text(answer) ==
    IF answer.b \in {"nomessage", "nocontent"} THEN <<>> ELSE answer.content.text

match_failure ==
    Exc("Exception", "Failed to communicate with Ollama for match analysis: <e>")

null_strip_failure ==
    Exc("AttributeError", "'NoneType' object has no attribute 'strip'")

analyze_match(answer) ==
    IF answer.t # "OK"
    THEN Raise(except_RequestError(answer.t, match_failure), <<"chat">>, 0)
    ELSE IF answer.b = "nojson" THEN Raise(json_failure, <<"chat">>, 0)
    ELSE IF answer.b = "nullcontent" THEN Raise(null_strip_failure, <<"chat">>, 0)
    ELSE IF falsy(strip(content_text(answer)))
    THEN Raise(Exc("Exception", "Ollama returned an empty summary."), <<"chat">>, 0)
    ELSE Return(strip(content_text(answer)), <<"chat">>, 0)

\* get_department_for_career_field: the static mapping, in its order (the
\* last department is written with a typographic apostrophe in the source)
department_mapping ==
    << [department |-> "Engineering & Product",
        fields |-> {"Software Development", "Quality Assurance",
                    "Product Management", "Business Development", "Design"}],
       [department |-> "Partner Onboarding & Support",
        fields |-> {"Operations", "Customer Education"}],
       [department |-> "Business Customer Success",
        fields |-> {"Sales", "Sales Operations"}],
       [department |-> "Finance", fields |-> {"Finance & Business Support"}],
       [department |-> "Marketing",
        fields |-> {"Marketing and Communications", "Marketing Design"}],
       [department |-> "People & Culture", fields |-> {"Human Resources"}],
       [department |-> "MindBehind", fields |-> {"MindBehind"}],
       [department |-> "Ceo's Office", fields |-> {"CEO's Executive Office"}] >>

\* a variant whose loop stops at the first department
RECURSIVE department_first_only(_, _)
department_first_only(i, career_field) ==
    IF i > 1 THEN "Unknown Department"
    ELSE IF career_field.t = "str" /\ career_field.v \in department_mapping[i].fields
    THEN department_mapping[i].department
    ELSE department_first_only(i + 1, career_field)

RECURSIVE department_from(_, _)
department_from(i, career_field) ==
    IF i > Len(department_mapping) THEN "Unknown Department"
    ELSE IF career_field.t = "str" /\ career_field.v \in department_mapping[i].fields
    THEN department_mapping[i].department
    ELSE department_from(i + 1, career_field)

get_department_for_career_field(career_field) == department_from(1, career_field)

\* dict.get(key, default)
dict_get(d, key, default) == IF key \in DOMAIN d THEN d[key] ELSE default

\* d[key] = value
dict_set(d, key, value) ==
    [k \in DOMAIN d \cup {key} |-> IF k = key THEN value ELSE d[k]]

cv_info_failure ==
    Exc("ConnectionError", "Failed to communicate with Ollama: <e>")

empty_content_failure ==
    Exc("ValueError", "Ollama returned an empty content string.")


\* a variant that reads an empty content as the empty object
extract_cv_info_defaulting(answer) ==
    IF answer.t # "OK"
    THEN Raise(except_RequestError(answer.t, cv_info_failure), <<"chat">>, 0)
    ELSE IF answer.b = "nojson"
    THEN Raise(Exc("UnboundLocalError", "result"), <<"chat">>, 0)
    ELSE IF answer.b = "nullcontent" THEN Raise(null_strip_failure, <<"chat">>, 0)
    ELSE IF falsy(strip(content_text(answer)))
    THEN Return(dict_set(<<>>, "department",
                    JStr(get_department_for_career_field(JStr("unknown")))),
                <<"chat">>, 1)
    ELSE IF answer.content.kind = "invalid"
    THEN Raise(Exc("ValueError", "Ollama returned a malformed JSON. Raw response: <result>"),
               <<"chat">>, 0)
    ELSE IF answer.content.kind = "array"
    THEN Raise(Exc("AttributeError", "'list' object has no attribute 'get'"),
               <<"chat">>, 0)
    ELSE Return(dict_set(answer.content.obj, "department",
                    JStr(get_department_for_career_field(
                        dict_get(answer.content.obj, "career_field", JStr("unknown"))))),
                <<"chat">>, 1)

extract_cv_info(answer) ==
    IF answer.t # "OK"
    THEN Raise(except_RequestError(answer.t, cv_info_failure), <<"chat">>, 0)
    ELSE IF answer.b = "nojson"
    \* response.json() raises json.JSONDecodeError; its handler formats
    \* `result`, which is not bound yet
    THEN Raise(Exc("UnboundLocalError", "result"), <<"chat">>, 0)
    ELSE IF answer.b = "nullcontent" THEN Raise(null_strip_failure, <<"chat">>, 0)
    ELSE IF falsy(strip(content_text(answer))) THEN Raise(empty_content_failure, <<"chat">>, 0)
    ELSE IF answer.content.kind = "invalid"
    THEN Raise(Exc("ValueError", "Ollama returned a malformed JSON. Raw response: <result>"),
               <<"chat">>, 0)
    ELSE IF answer.content.kind = "array"
    THEN Raise(Exc("AttributeError", "'list' object has no attribute 'get'"),
               <<"chat">>, 0)
    ELSE Return(dict_set(answer.content.obj, "department",
                    JStr(get_department_for_career_field(
                        dict_get(answer.content.obj, "career_field", JStr("unknown"))))),
                <<"chat">>, 1)

\* core/models.py: CVInfo(**cv_info), every field Optional[str] = None
CVInfoFields ==
    {"first_name", "last_name", "email", "phone", "career_field", "department"}

CVInfo(d) ==
    IF \E k \in CVInfoFields \cap DOMAIN d : d[k].t \notin {"str", "null"}
    THEN Raise(Exc("ValidationError", "Input should be a valid string"), <<>>, 0)
    ELSE Return([k \in CVInfoFields |-> dict_get(d, k, JNull)], <<>>, 0)

\* core/models.py: ParsedResumeSuccess(...); parsed_cv_vector is List[float]
ParsedResumeSuccess(skills_data, cv_vector, cv_text, info) ==
    IF info.kind = "raise" THEN info
    ELSE IF cv_vector.t # "list"
    THEN Raise(Exc("ValidationError", "Input should be a valid list"), <<>>, 0)
    ELSE Return([status |-> "SUCCESS",
                 soft_skills |-> skills_data.soft_skills,
                 tech_skills |-> skills_data.tech_skills,
                 parsed_cv_vector |-> cv_vector.v,
                 parsed_cv_text |-> cv_text,
                 cv_info |-> info.value[1]], <<>>, 0)

(***************************************************************************)
(* processing.py: the start-up availability guard.  A model name is the    *)
(* sequence of its parts (base name, tag, ...), so that startswith is the  *)
(* prefix order.  The answer of /api/tags is [t, b, models]: b = "nojson", *)
(* "nomodels" (JSON without "models") or "models"; an entry of the list    *)
(* is [named, name], named being whether it has a "name" key.  The answer  *)
(* of /api/pull is "OK", a transport failure or "StreamError" (the stream  *)
(* broke while it was drained).                                            *)
(***************************************************************************)
EMBEDDING_MODEL == <<"nomic-embed-text">>
EXTRACTION_MODEL == <<"phi4-mini-reasoning", ":3.8b">>


\* any(m["name"].startswith(model_name) for m in models): "True", "False",
\* or "KeyError" at the first entry without a name before any match
RECURSIVE any_startswith(_, _)
any_startswith(models, model_name) ==
    IF models = <<>> THEN "False"
    ELSE IF ~Head(models).named THEN "KeyError"
    ELSE IF startswith(Head(models).name, model_name) THEN "True"
    ELSE any_startswith(Tail(models), model_name)

\* response.json().get("models", [])
listed_models(tags) == IF tags.b = "nomodels" THEN <<>> ELSE tags.models

\* the body of the try block: the exception it ends with (NoExc if none),
\* the calls it issued and what it logged
GuardBody(exc, calls, log) == [exc |-> exc, calls |-> calls, log |-> log]

transport_failure(t) ==
    IF t \in RequestErrors THEN Exc(t, "request failed")
    ELSE IF t = "StreamError" THEN Exc("ReadError", "stream broke")
    ELSE Exc("HTTPStatusError", "Client or server error response")

guard_body(model_name, tags, pull) ==
    IF tags.t # "OK" THEN GuardBody(transport_failure(tags.t), <<"tags">>, "")
    ELSE IF tags.b = "nojson" THEN GuardBody(json_failure, <<"tags">>, "")
    ELSE IF any_startswith(listed_models(tags), model_name) = "KeyError"
    THEN GuardBody(Exc("KeyError", "name"), <<"tags">>, "")
    ELSE IF any_startswith(listed_models(tags), model_name) = "True"
    THEN GuardBody(NoExc, <<"tags">>, "is already available")
    ELSE IF pull # "OK"
    THEN GuardBody(transport_failure(pull), <<"tags", "pull">>, "not found locally")
    ELSE GuardBody(NoExc, <<"tags", "pull">>, "Successfully pulled model")


\* a variant of the except clause that catches httpx.RequestError only
RequestErrorClasses == RequestErrors \cup {"ReadError"}

\* the classes `except Exception` catches: every exception class of the model
\* derives from Exception
ExceptionClasses ==
    AppErrors \cup RequestErrors \cup
    {"Exception", "HTTPStatusError", "ReadError", "JSONDecodeError", "KeyError",
     "AttributeError", "ValueError", "ConnectionError", "UnboundLocalError",
     "ValidationError", "RequestValidationError"}

\* ensure_model_is_pulled: raised is whether an exception leaves the function
Guard(raised, calls, log) == [raised |-> raised, calls |-> calls, log |-> log]

ensure_model_is_pulled(model_name, tags, pull) ==
    LET body == guard_body(model_name, tags, pull) IN
    IF body.exc = NoExc THEN Guard(FALSE, body.calls, body.log)
    ELSE IF body.exc.cls \in ExceptionClasses
    THEN Guard(FALSE, body.calls, "Failed to ensure model")
    ELSE Guard(TRUE, body.calls, body.log)

(***************************************************************************)
(* What the outside world can answer.                                      *)
(***************************************************************************)
\* the answer of a failed call carries no body
Failed(t) == [t |-> t, b |-> ""]

\* texts a model may give to a comma-list prompt
GenerateTexts ==
    { <<>>,
      <<"N", "O", "N", "E">>,
      <<"n", "o", "n", "e">>,
      <<" ", "N", "o", "N", "e", "\n">>,
      <<"N", "O", "N", "E", ",", "a">>,
      <<"a">>,
      <<"a", ",", " ", ",", "b", " ", ",", "a">> }

GenerateAnswers ==
    {Failed(t) @@ [text |-> <<>>] : t \in Transports \ {"OK"}}
    \cup {[t |-> "OK", b |-> b, text |-> <<>>] : b \in {"nojson", "nokey"}}
    \cup {[t |-> "OK", b |-> "text", text |-> x] : x \in GenerateTexts}

\* the value under the vector key: a list of floats, or null
NoVector == [t |-> "null", v |-> <<>>]

EmbeddingAnswers ==
    {Failed(t) @@ [vec |-> NoVector] : t \in Transports \ {"OK"}}
    \cup {[t |-> "OK", b |-> b, vec |-> NoVector] : b \in {"nojson", "nokey"}}
    \cup {[t |-> "OK", b |-> "vec", vec |-> v] :
            v \in {NoVector, [t |-> "list", v |-> <<1, 2>>]}}

NoContent == Content(<<>>, "invalid", <<>>)

ChatFailures ==
    {Failed(t) @@ [content |-> NoContent] : t \in Transports \ {"OK"}}
    \cup {[t |-> "OK", b |-> b, content |-> NoContent] :
            b \in {"nojson", "nomessage", "nocontent", "nullcontent"}}

\* contents of a match analysis: text, never looked at as JSON
SummaryTexts == { <<>>, <<" ">>, <<"S">>, <<" ", "S", "\n">> }

MatchAnswers ==
    ChatFailures
    \cup {[t |-> "OK", b |-> "content", content |-> Content(x, "invalid", <<>>)] :
            x \in SummaryTexts}

\* the values the model may give each key of its JSON object (JAbsent: the
\* key is not in the object)
InfoKeys == {"first_name", "last_name", "email", "phone", "career_field"}

\* the career fields the prompt offers, as the mapping lists them
MappedFields ==
    UNION {department_mapping[i].fields : i \in 1..Len(department_mapping)}

InfoValues(k) ==
    CASE k = "first_name" -> {JAbsent, JNull, JStr("unknown"), JStr("Ada")}
      [] k = "last_name" -> {JAbsent, JStr("Lovelace")}
      [] k = "email" -> {JNull, JStr("unknown")}
      [] k = "phone" -> {JAbsent, JStr("unknown"), JNum("5550100")}
      [] k = "career_field" ->
             {JAbsent, JNull, JStr("unknown"), JStr("Astrology"), JStr("Finance")}
             \cup {JStr(f) : f \in MappedFields}

\* the dict of the keys that are present
present(f) == [k \in {x \in InfoKeys : f[x] # JAbsent} |-> f[k]]

InfoObjects ==
    {present([first_name |-> a, last_name |-> b, email |-> c, phone |-> d,
              career_field |-> e]) :
        a \in InfoValues("first_name"), b \in InfoValues("last_name"),
        c \in InfoValues("email"), d \in InfoValues("phone"),
        e \in InfoValues("career_field")}

CvInfoContents ==
    { Content(<<>>, "invalid", <<>>),
      Content(<<" ", "\n">>, "invalid", <<>>),
      Content(<<"o", "o", "p", "s">>, "invalid", <<>>),
      Content(<<"[", "]">>, "array", <<>>) }
    \cup {Content(<<"{", "}">>, "object", o) : o \in InfoObjects}

CvInfoAnswers ==
    ChatFailures
    \cup {[t |-> "OK", b |-> "content", content |-> c] : c \in CvInfoContents}

\* /api/tags
ListedNames ==
    { <<"phi4-mini-reasoning">>,
      <<"phi4-mini-reasoning", ":3.8b">>,
      <<"phi4-mini-reasoning", ":3.8b", "-q4">>,
      <<"nomic-embed-text", ":latest">>,
      <<"llama3", ":latest">> }

ModelEntries ==
    {[named |-> TRUE, name |-> n] : n \in ListedNames}
    \cup {[named |-> FALSE, name |-> <<>>]}

TagsAnswers ==
    {Failed(t) @@ [models |-> <<>>] : t \in Transports \ {"OK"}}
    \cup {[t |-> "OK", b |-> b, models |-> <<>>] : b \in {"nojson", "nomodels"}}
    \cup {[t |-> "OK", b |-> "models", models |-> m] :
            m \in SeqsUpTo(ModelEntries, MaxModels)}

PullAnswers == Transports \cup {"StreamError"}

\* request strings
InputChars == {" ", "a"}
InputStrings == SeqsUpTo(InputChars, MaxInputLen)

\* the lists of a posting-bulk request
PostingLists == SeqsUpTo(InputStrings, MaxPostings)

EmptyRequest ==
    [posting_string |-> <<>>, parsed_cv |-> <<>>, postings |-> <<>>]

(***************************************************************************)
(* State.                                                                  *)
(***************************************************************************)
VARIABLES
    startPc,        \* where lifespan is: "extraction", "extraction checked",
                    \* "embedding", "embedding checked", "ready", or "failed"
    checked,        \* the models ensure_model_is_pulled has been called for
    guard,          \* the last call of the guard: model, answer of /api/tags, result
    pc,             \* where the current request is
    endpoint,       \* the endpoint of the current request
    req,            \* its body
    pdf_bytes, cv_text, skills_data, cv_vector, cv_info,
                    \* the locals of parse_resume_endpoint, <<>> while unset
    done,           \* the processing calls of the request that have returned
    unusable,       \* history: the processing calls of the request whose
                    \* answer from outside was a failure or unusable
    last,           \* the last processing call: function, answers, result
    netCalls,       \* the calls issued to the model host in this request
    resolverCalls,  \* the invocations of get_department_for_career_field
    exc,            \* the exception that left the endpoint
    response        \* the response of the request

vars ==
    <<startPc, checked, guard, pc, endpoint, req, pdf_bytes, cv_text,
      skills_data, cv_vector, cv_info, done, unusable, last, netCalls,
      resolverCalls, exc, response>>

startVars == <<startPc, checked, guard>>

locals == <<pdf_bytes, cv_text, skills_data, cv_vector, cv_info>>

NoGuard ==
    [model |-> <<>>, tags |-> Failed("") @@ [models |-> <<>>],
     result |-> Guard(FALSE, <<>>, "")]

NoCall == [fn |-> "", args |-> <<>>, result |-> Return(0, <<>>, 0)]

NoResponse == [status_code |-> 0, content |-> [status |-> ""]]

Init ==
    /\ startPc = "extraction"
    /\ checked = <<>>
    /\ guard = NoGuard
    /\ pc = "idle"
    /\ endpoint = ""
    /\ req = EmptyRequest
    /\ pdf_bytes = <<>>
    /\ cv_text = <<>>
    /\ skills_data = <<>>
    /\ cv_vector = <<>>
    /\ cv_info = <<>>
    /\ done = <<>>
    /\ unusable = <<>>
    /\ last = NoCall
    /\ netCalls = <<>>
    /\ resolverCalls = 0
    /\ exc = NoExc
    /\ response = NoResponse

(***************************************************************************)
(* main.py: lifespan.                                                      *)
(***************************************************************************)
requestVars ==
    <<pc, endpoint, req, pdf_bytes, cv_text, skills_data, cv_vector, cv_info,
      done, unusable, last, netCalls, resolverCalls, exc, response>>

Ensure(model_name, next) ==
    \E tags \in TagsAnswers, pull \in PullAnswers :
        LET r == ensure_model_is_pulled(model_name, tags, pull) IN
        /\ guard' = [model |-> model_name, tags |-> tags, result |-> r]
        /\ checked' = Append(checked, model_name)
        /\ startPc' = IF r.raised THEN "failed" ELSE next
        /\ UNCHANGED requestVars

LifespanExtraction ==
    /\ startPc = "extraction"
    /\ Ensure(EXTRACTION_MODEL, "extraction checked")

LifespanEmbedding ==
    /\ startPc = "embedding"
    /\ Ensure(EMBEDDING_MODEL, "embedding checked")

\* the guard has returned and its frame is gone: lifespan goes on to its
\* next line, after the second check "Model check complete. Application is
\* ready." and the yield
LifespanResume ==
    /\ startPc \in {"extraction checked", "embedding checked"}
    /\ startPc' = IF startPc = "extraction checked" THEN "embedding" ELSE "ready"
    /\ guard' = NoGuard
    /\ UNCHANGED <<checked>>
    /\ UNCHANGED requestVars

(***************************************************************************)
(* main.py: the endpoints.  A request is taken once the application is     *)
(* ready; nothing of a request outlives its response.                      *)
(***************************************************************************)

\* a variant that tests `not s` only
blank_without_strip(s) == falsy(s)

\* `not s or not s.strip()`
blank(s) == falsy(s) \/ falsy(strip(s))

\* FastAPI has bound the body to the request model and enters the endpoint
Accept(e, body, first, x) ==
    /\ endpoint' = e
    /\ req' = body
    /\ pc' = first
    /\ exc' = x
    /\ UNCHANGED <<done, unusable, last, netCalls, resolverCalls, response>>
    /\ UNCHANGED locals
    /\ UNCHANGED startVars

Idle == startPc = "ready" /\ pc = "idle"

ReceiveParseResume ==
    /\ Idle
    /\ Accept("parsed-resumes", EmptyRequest, "download", NoExc)

ReceivePosting ==
    /\ Idle
    /\ \E s \in InputStrings :
        Accept("posting", [EmptyRequest EXCEPT !.posting_string = s],
               "posting_check", NoExc)

ReceiveMatchAnalyze ==
    /\ Idle
    /\ \E cv \in InputStrings, s \in InputStrings :
        Accept("match-analyze",
               [EmptyRequest EXCEPT !.parsed_cv = cv, !.posting_string = s],
               "match_check", NoExc)

ReceivePostingBulk ==
    /\ Idle
    /\ \E l \in PostingLists :
        Accept("posting-bulk", [EmptyRequest EXCEPT !.postings = l],
               "bulk_check", NoExc)

\* a body the request model rejects (a resume that is no URL, a missing or
\* mistyped field): FastAPI raises RequestValidationError before the endpoint
ReceiveInvalid ==
    /\ Idle
    /\ \E e \in {"parsed-resumes", "posting", "match-analyze", "posting-bulk"} :
        Accept(e, EmptyRequest, "raised",
               Exc("RequestValidationError", "validation error"))

\* whether an answer from outside is usable: the call got a 2xx answer that
\* carries what was asked for
UsableGenerate(a) == a.t = "OK" /\ a.b # "nojson"
UsableVector(a) == a.t = "OK" /\ a.b = "vec" /\ a.vec.t = "list"
UsableSummary(a) ==
    a.t = "OK" /\ a.b = "content" /\ strip(a.content.text) # <<>>
UsableInfo(a) == UsableSummary(a) /\ a.content.kind = "object"

\* one call into the processing layer: r is its result and ok whether the
\* answers it got were usable; on a return the endpoint goes on at `next`,
\* on a raise the exception leaves the endpoint
Call(fn, args, ok, r, next) ==
    /\ last' = [fn |-> fn, args |-> args, result |-> r]
    /\ unusable' = IF ok THEN unusable ELSE Append(unusable, fn)
    /\ netCalls' = netCalls \o r.calls
    /\ resolverCalls' = resolverCalls + r.resolver
    /\ done' = IF r.kind = "return" THEN Append(done, fn) ELSE done
    /\ exc' = r.exc
    /\ pc' = IF r.kind = "return" THEN next ELSE "raised"
    /\ UNCHANGED <<endpoint, req, response>>
    /\ UNCHANGED startVars

\* the endpoint returns: the response is sent
Respond(code, content) ==
    /\ response' = [status_code |-> code, content |-> content]
    /\ pc' = "responded"

\* ---- /api/v1/parsed-resumes
Download ==
    /\ pc = "download"
    /\ \E t \in Transports, content \in PdfBytes :
        LET r == download_and_validate_cv(t, content) IN
        /\ Call("download_and_validate_cv", <<t>>, t = "OK", r, "parse_pdf")
        /\ pdf_bytes' = r.value
        /\ UNCHANGED <<cv_text, skills_data, cv_vector, cv_info>>

ParsePdf ==
    /\ pc = "parse_pdf"
    /\ LET r == parse_pdf_text(pdf_bytes[1]) IN
        /\ Call("parse_pdf_text", <<pdf_bytes[1]>>, pdf_bytes[1] = "pdf_with_text",
                r, "skills")
        /\ cv_text' = r.value
        /\ UNCHANGED <<pdf_bytes, skills_data, cv_vector, cv_info>>

ExtractSkills ==
    /\ pc = "skills"
    /\ \E tech \in GenerateAnswers, soft \in GenerateAnswers :
        LET r == extract_skills_from_text(tech, soft) IN
        /\ Call("extract_skills_from_text",
                IF Len(r.calls) = 2 THEN <<tech, soft>> ELSE <<tech>>,
                UsableGenerate(tech) /\ UsableGenerate(soft), r, "embedding")
        /\ skills_data' = r.value
        /\ UNCHANGED <<pdf_bytes, cv_text, cv_vector, cv_info>>

GenerateEmbedding ==
    /\ pc = "embedding"
    /\ \E answer \in EmbeddingAnswers :
        LET r == generate_embedding_from_text(answer) IN
        /\ Call("generate_embedding_from_text", <<answer>>, UsableVector(answer),
                r, "cv_info")
        /\ cv_vector' = r.value
        /\ UNCHANGED <<pdf_bytes, cv_text, skills_data, cv_info>>

ExtractCvInfo ==
    /\ pc = "cv_info"
    /\ \E answer \in CvInfoAnswers :
        LET r == extract_cv_info(answer) IN
        /\ Call("extract_cv_info", <<answer>>, UsableInfo(answer), r, "parsed")
        /\ cv_info' = r.value
        /\ UNCHANGED <<pdf_bytes, cv_text, skills_data, cv_vector>>

\* lines 84-91: the response model is built and returned
ParseResumeReturn ==
    /\ pc = "parsed"
    /\ LET r == ParsedResumeSuccess(skills_data[1], cv_vector[1], cv_text[1],
                                    CVInfo(cv_info[1])) IN
        IF r.kind = "return"
        THEN /\ Respond(200, r.value[1])
             /\ UNCHANGED exc
        ELSE /\ exc' = r.exc
             /\ pc' = "raised"
             /\ UNCHANGED response
    /\ UNCHANGED <<endpoint, req, done, unusable, last, netCalls, resolverCalls>>
    /\ UNCHANGED locals
    /\ UNCHANGED startVars

\* core/models.py: PostingSuccess / PostingsSuccess / MatchAnalyzeSuccess
VectorSuccess(key, vec) ==
    IF vec.t # "list"
    THEN Raise(Exc("ValidationError", "Input should be a valid list"), <<>>, 0)
    ELSE Return([status |-> "SUCCESS"] @@ (key :> vec.v), <<>>, 0)

\* the second half of the three short endpoints: one processing call, then
\* the response model built from its value
CallAndReturn(fn, args, ok, r, success) ==
    /\ last' = [fn |-> fn, args |-> args, result |-> r]
    /\ unusable' = IF ok THEN unusable ELSE Append(unusable, fn)
    /\ netCalls' = netCalls \o r.calls
    /\ resolverCalls' = resolverCalls + r.resolver
    /\ done' = IF r.kind = "return" THEN Append(done, fn) ELSE done
    /\ IF r.kind = "return" /\ success.kind = "return"
       THEN /\ Respond(200, success.value[1])
            /\ UNCHANGED exc
       ELSE /\ exc' = IF r.kind = "raise" THEN r.exc ELSE success.exc
            /\ pc' = "raised"
            /\ UNCHANGED response
    /\ UNCHANGED <<endpoint, req>>
    /\ UNCHANGED locals
    /\ UNCHANGED startVars

\* an endpoint's own input check raises e
CheckRaises(e) ==
    /\ exc' = e
    /\ pc' = "raised"
    /\ UNCHANGED <<endpoint, req, done, unusable, last, netCalls, resolverCalls, response>>
    /\ UNCHANGED locals
    /\ UNCHANGED startVars

CheckPasses(next) ==
    /\ pc' = next
    /\ UNCHANGED <<endpoint, req, done, unusable, last, netCalls, resolverCalls, response, exc>>
    /\ UNCHANGED locals
    /\ UNCHANGED startVars

\* ---- /api/v1/posting
posting_invalid(request) == blank(request.posting_string)

PostingCheck ==
    /\ pc = "posting_check"
    /\ IF posting_invalid(req)
       THEN CheckRaises(AppErrorOf("EmptyStringError", "given string is not valid"))
       ELSE CheckPasses("posting_embed")

PostingEmbed ==
    /\ pc = "posting_embed"
    /\ \E answer \in EmbeddingAnswers :
        LET r == generate_posting_vector(answer) IN
        CallAndReturn("generate_posting_vector", <<answer>>, UsableVector(answer), r,
                      IF r.kind = "return"
                      THEN VectorSuccess("posting_vector", r.value[1]) ELSE r)

\* ---- /api/v1/match-analyze
match_invalid(request) == blank(request.parsed_cv) \/ blank(request.posting_string)

\* lines 110-116: the endpoint answers by itself
match_invalid_response ==
    [status_code |-> 400,
     content |-> [status |-> "VALIDATION_ERROR",
                  result |-> "cv_vector and job_posting_vector are required and cannot be empty"]]

MatchCheck ==
    /\ pc = "match_check"
    /\ IF match_invalid(req)
       THEN /\ Respond(match_invalid_response.status_code, match_invalid_response.content)
            /\ UNCHANGED <<endpoint, req, done, unusable, last, netCalls, resolverCalls, exc>>
            /\ UNCHANGED locals
            /\ UNCHANGED startVars
       ELSE CheckPasses("match_analyze")

MatchAnalyze ==
    /\ pc = "match_analyze"
    /\ \E answer \in MatchAnswers :
        LET r == analyze_match(answer) IN
        CallAndReturn("analyze_match", <<answer>>, UsableSummary(answer), r,
                      IF r.kind = "return"
                      THEN Return([status |-> "SUCCESS", result |-> r.value[1]], <<>>, 0)
                      ELSE r)

\* ---- /api/v1/posting-bulk
bulk_invalid(request) ==
    \E i \in 1..Len(request.postings) : blank(request.postings[i])

BulkCheck ==
    /\ pc = "bulk_check"
    /\ IF bulk_invalid(req)
       THEN CheckRaises(AppErrorOf("EmptyStringError", "given string is not valid"))
       ELSE CheckPasses("bulk_embed")

BulkEmbed ==
    /\ pc = "bulk_embed"
    /\ \E answer \in EmbeddingAnswers :
        LET r == generate_embedding_from_postings(answer) IN
        CallAndReturn("generate_embedding_from_postings", <<answer>>,
                      UsableVector(answer), r,
                      IF r.kind = "return"
                      THEN VectorSuccess("posting_vectors", r.value[1]) ELSE r)

\* ---- the exception handlers
HandleException ==
    /\ pc = "raised"
    /\ Respond(handle(exc).status_code, handle(exc).content)
    /\ UNCHANGED <<endpoint, req, done, unusable, last, netCalls, resolverCalls, exc>>
    /\ UNCHANGED locals
    /\ UNCHANGED startVars

\* the response has been sent: the request and its locals are gone
Close ==
    /\ pc = "responded"
    /\ pc' = "idle"
    /\ endpoint' = ""
    /\ req' = EmptyRequest
    /\ pdf_bytes' = <<>>
    /\ cv_text' = <<>>
    /\ skills_data' = <<>>
    /\ cv_vector' = <<>>
    /\ cv_info' = <<>>
    /\ done' = <<>>
    /\ unusable' = <<>>
    /\ last' = NoCall
    /\ netCalls' = <<>>
    /\ resolverCalls' = 0
    /\ exc' = NoExc
    /\ response' = NoResponse
    /\ UNCHANGED startVars

Next ==
    \/ LifespanExtraction
    \/ LifespanEmbedding
    \/ LifespanResume
    \/ ReceiveParseResume
    \/ ReceivePosting
    \/ ReceiveMatchAnalyze
    \/ ReceivePostingBulk
    \/ ReceiveInvalid
    \/ Download
    \/ ParsePdf
    \/ ExtractSkills
    \/ GenerateEmbedding
    \/ ExtractCvInfo
    \/ ParseResumeReturn
    \/ PostingCheck
    \/ PostingEmbed
    \/ MatchCheck
    \/ MatchAnalyze
    \/ BulkCheck
    \/ BulkEmbed
    \/ HandleException
    \/ Close

Spec == Init /\ [][Next]_vars

(***************************************************************************)
(* Properties.                                                             *)
(***************************************************************************)
ParseResumeCalls ==
    <<"download_and_validate_cv", "parse_pdf_text", "extract_skills_from_text",
      "generate_embedding_from_text", "extract_cv_info">>

SuccessKeys ==
    {"status", "soft_skills", "tech_skills", "parsed_cv_vector",
     "parsed_cv_text", "cv_info"}

IsSuccess(r) == r.content.status = "SUCCESS"

\* the locals of the steps after the first n are still unset
UnsetAfter(n) ==
    /\ (n < 1 => pdf_bytes = <<>>)
    /\ (n < 2 => cv_text = <<>>)
    /\ (n < 3 => skills_data = <<>>)
    /\ (n < 4 => cv_vector = <<>>)
    /\ (n < 5 => cv_info = <<>>)

\* C1: a resume-parse request answers SUCCESS only after download, PDF parse,
\* skill extraction, embedding and contact extraction have all returned, in
\* that order, and the payload then holds the skills, the vector, the text
\* and cv_info as those calls returned them; once a step has raised, the
\* later steps are never run, none of their results is filled in, and the
\* response is no SUCCESS.
C1_SuccessOnlyIfAllStepsSucceeded ==
    endpoint = "parsed-resumes" =>
        /\ done = SubSeq(ParseResumeCalls, 1, Len(done))
        /\ (pc = "responded" /\ IsSuccess(response) =>
              /\ done = ParseResumeCalls
              /\ unusable = <<>>
              /\ exc = NoExc
              /\ response.status_code = 200
              /\ DOMAIN response.content = SuccessKeys
              /\ response.content.tech_skills = skills_data[1].tech_skills
              /\ response.content.soft_skills = skills_data[1].soft_skills
              /\ response.content.parsed_cv_vector = cv_vector[1].v
              /\ response.content.parsed_cv_text = cv_text[1]
              /\ response.content.cv_info.department = cv_info[1].department)
        /\ (exc # NoExc =>
              /\ UnsetAfter(Len(done))
              /\ (pc = "responded" => ~IsSuccess(response)))

C1_Witness ==
    /\ endpoint = "parsed-resumes"
    /\ pc = "responded"
    /\ IsSuccess(response)
    /\ response.content.tech_skills # <<>>
    /\ response.content.cv_info.department = JStr("Business Customer Success")

\* a failed resume-parse request: contact extraction raised after the three
\* earlier steps had returned
C1_FailureReached ==
    /\ endpoint = "parsed-resumes"
    /\ pc = "responded"
    /\ Len(done) = 4
    /\ ~IsSuccess(response)

\* C2: extract_skills_from_text returns a skill pair only when both the
\* technical-skill call and the soft-skill call got a 2xx answer; when either
\* call fails (connection error, timeout, non-2xx status) it raises and the
\* endpoint holds no skill pair, not even a partial one; a 2xx answer whose
\* list is empty is returned as an empty list.
C2_BothCallsOrNothing ==
    last.fn = "extract_skills_from_text" =>
        LET answers == last.args
            r == last.result IN
        /\ (r.kind = "return" =>
              /\ Len(answers) = 2
              /\ \A i \in 1..2 : answers[i].t = "OK"
              /\ netCalls = <<"generate", "generate">>)
        /\ ((\E i \in 1..Len(answers) : answers[i].t # "OK") =>
              /\ r.kind = "raise"
              /\ r.value = <<>>
              /\ skills_data = <<>>
              /\ pc \in {"raised", "responded"})
        /\ (Len(answers) = 2 /\ (\A i \in 1..2 : answers[i].t = "OK" /\ answers[i].b = "text") =>
              /\ r.kind = "return"
              /\ skills_data = r.value)

\* the soft-skill call failed after the technical-skill call had answered a list
C2_Witness ==
    /\ last.fn = "extract_skills_from_text"
    /\ Len(last.args) = 2
    /\ last.args[1].t = "OK"
    /\ last.args[1].text = <<"a">>
    /\ last.args[2].t = "HTTP500"
    /\ pc = "raised"

\* both calls answered and one of the lists is empty
C2_EmptyListReached ==
    /\ last.fn = "extract_skills_from_text"
    /\ last.result.kind = "return"
    /\ last.result.value[1].tech_skills = <<>>
    /\ last.result.value[1].soft_skills # <<>>

\* C3 (as claimed): when the download of the resume answers 404 or another
\* non-2xx status, the caller gets the INVALID_REQUEST error, a 4xx, not the
\* 500 internal server error.
C3_BadStatusIsInvalidRequest ==
    /\ endpoint = "parsed-resumes"
    /\ pc = "responded"
    /\ last.fn = "download_and_validate_cv"
    /\ last.args[1] \in ErrorStatuses
    => /\ response.status_code = 400
       /\ response.content.errorCode = "INVALID_REQUEST"

\* a string that is empty or has only whitespace
IsBlank(s) == \A i \in 1..Len(s) : s[i] \in Whitespace

RequiredBlank ==
    \/ endpoint = "posting" /\ IsBlank(req.posting_string)
    \/ endpoint = "match-analyze"
         /\ (IsBlank(req.parsed_cv) \/ IsBlank(req.posting_string))
    \/ endpoint = "posting-bulk"
         /\ \E i \in 1..Len(req.postings) : IsBlank(req.postings[i])

\* C4: on the posting, posting-bulk and match-analyze endpoints, a request
\* with a required string (for posting-bulk: any element of the list) empty
\* or whitespace-only has issued no call to the model host at any point, never
\* reaches the processing call, and is answered with a 400 VALIDATION_ERROR.
C4_BlankInputNeverCallsModel ==
    exc.cls # "RequestValidationError" /\ RequiredBlank =>
        /\ netCalls = <<>>
        /\ last = NoCall
        /\ pc \in {"posting_check", "match_check", "bulk_check", "raised", "responded"}
        /\ (pc = "responded" =>
              /\ response.status_code = 400
              /\ response.content.status = "VALIDATION_ERROR")

\* a posting-bulk request whose first posting is fine and whose second is
\* whitespace-only has been answered
C4_Witness ==
    /\ endpoint = "posting-bulk"
    /\ pc = "responded"
    /\ Len(req.postings) = 2
    /\ req.postings[1] = <<"a">>
    /\ req.postings[2] = <<" ">>
    /\ response.status_code = 400

\* the chat call answered 2xx JSON, but the content is missing or empty
EmptyContent(a) ==
    /\ a.t = "OK"
    /\ \/ a.b \in {"nomessage", "nocontent"}
       \/ a.b = "content" /\ IsBlank(a.content.text)

\* C5: when the chat call of extract_cv_info answers 2xx but the content is
\* empty or missing, extract_cv_info raises the ValueError of an empty
\* content (neither the ConnectionError of a transport failure nor a
\* returned default), and get_department_for_career_field has not been
\* invoked in that request.
C5_EmptyContentIsMalformedOutput ==
    last.fn = "extract_cv_info" /\ EmptyContent(last.args[1]) =>
        /\ last.result.kind = "raise"
        /\ last.result.exc = empty_content_failure
        /\ last.result.exc.cls # cv_info_failure.cls
        /\ cv_info = <<>>
        /\ resolverCalls = 0

C5_Witness ==
    /\ last.fn = "extract_cv_info"
    /\ last.args[1].t = "OK"
    /\ last.args[1].b = "content"
    /\ last.args[1].content.text = <<>>
    /\ pc = "responded"
    /\ response.status_code = 500

\* the resolver is invoked when the content is a JSON object
C5_ResolverReached ==
    /\ last.fn = "extract_cv_info"
    /\ resolverCalls = 1

\* C6 (as claimed): every failure response carries an error code field and a
\* message field.
C6_ErrorsCarryCodeAndMessage ==
    pc = "responded" /\ ~IsSuccess(response) =>
        {"errorCode", "message"} \subseteq DOMAIN response.content

\* the task of a chat call, by name
ChatTask(fn, a) ==
    IF fn = "analyze_match" THEN analyze_match(a) ELSE extract_cv_info(a)

\* the chat call answered 2xx JSON, but the content is empty, missing or (for
\* extract_cv_info) not decodable as JSON
UnusableContent(fn, a) ==
    \/ EmptyContent(a)
    \/ fn = "extract_cv_info" /\ a.t = "OK" /\ a.b = "content"
         /\ a.content.kind = "invalid"

\* C7 (as claimed): the failure response to a request whose chat call
\* answered an unusable payload differs, in status or error code, from the
\* response the same task gets when the model host is unreachable.
C7_UnreachableDiffersFromUnusable ==
    /\ pc = "responded"
    /\ last.fn \in {"analyze_match", "extract_cv_info"}
    /\ UnusableContent(last.fn, last.args[1])
    => \A t \in RequestErrors :
         LET other == handle(ChatTask(last.fn, [last.args[1] EXCEPT !.t = t]).exc) IN
         \/ other.status_code # response.status_code
         \/ other.content.errorCode # response.content.errorCode

\* C8 (as claimed): every dict extract_cv_info returns, and the cv_info of
\* every SUCCESS response of the resume-parse endpoint, has a string under
\* each of first_name, last_name, email, phone and career_field.
C8_EveryKeyIsAString ==
    /\ (last.fn = "extract_cv_info" /\ last.result.kind = "return" =>
          \A k \in InfoKeys :
              /\ k \in DOMAIN last.result.value[1]
              /\ last.result.value[1][k].t = "str")
    /\ (endpoint = "parsed-resumes" /\ pc = "responded" /\ IsSuccess(response) =>
          \A k \in InfoKeys : response.content.cv_info[k].t = "str")

\* name begins with the parts of prefix
HasPrefix(name, prefix) ==
    /\ Len(prefix) <= Len(name)
    /\ \A i \in 1..Len(prefix) : name[i] = prefix[i]

\* C9: ensure_model_is_pulled never raises to lifespan, whatever the
\* list-models call and the pull call answer, so lifespan never fails: it
\* checks the extraction model, then the embedding model, and is ready only
\* after both; and the guard has issued a pull only when the list call
\* answered a list in which no name starts with the requested name.
C9_GuardNeverRaises ==
    /\ startPc # "failed"
    /\ ~guard.result.raised
    /\ (startPc \in {"extraction", "extraction checked"} => pc = "idle")
    /\ (startPc = "extraction checked" => checked = <<EXTRACTION_MODEL>>)
    /\ (startPc \in {"embedding checked", "ready"} =>
          checked = <<EXTRACTION_MODEL, EMBEDDING_MODEL>>)
    /\ (pc # "idle" => startPc = "ready")
    /\ (guard # NoGuard =>
          /\ guard.result.calls \in {<<"tags">>, <<"tags", "pull">>}
          /\ (guard.result.calls = <<"tags", "pull">> =>
                /\ guard.tags.t = "OK"
                /\ guard.tags.b \in {"nomodels", "models"}
                /\ \A i \in 1..Len(guard.tags.models) :
                      /\ guard.tags.models[i].named
                      /\ ~HasPrefix(guard.tags.models[i].name, guard.model)))

\* the second check found the list malformed and lifespan went on
C9_Witness ==
    /\ startPc = "embedding checked"
    /\ guard.tags.t = "OK"
    /\ Len(guard.tags.models) = 2
    /\ ~guard.tags.models[2].named
    /\ guard.result.log = "Failed to ensure model"

\* a pull was issued and answered a non-2xx status
C9_PullReached ==
    /\ startPc = "extraction checked"
    /\ guard.result.calls = <<"tags", "pull">>
    /\ Len(guard.tags.models) = 2
    /\ guard.result.log = "Failed to ensure model"

\* the whole text is the token NONE, in any letter case
IsNoneToken(text) ==
    /\ Len(text) = 4
    /\ text[1] \in {"N", "n"}
    /\ text[2] \in {"O", "o"}
    /\ text[3] \in {"N", "n"}
    /\ text[4] \in {"E", "e"}

\* the "response" text of a 2xx answer without its surrounding whitespace
Trimmed(a) == strip(a.text)

\* C10 (as claimed): when the whole response to a comma-list prompt is the
\* token NONE in any letter case, the list extracted from it is empty; for
\* the technical-skill list and for the soft-skill list.
C10_NoneIsEmptyForBothLists ==
    last.fn = "extract_skills_from_text" /\ last.result.kind = "return" =>
        /\ (last.args[1].b = "text" /\ IsNoneToken(Trimmed(last.args[1])) =>
              last.result.value[1].tech_skills = <<>>)
        /\ (last.args[2].b = "text" /\ IsNoneToken(Trimmed(last.args[2])) =>
              last.result.value[1].soft_skills = <<>>)

\* C10 (amended): when the whole response to the soft-skill prompt is the
\* token NONE in any letter case, the soft-skill list is empty; the
\* technical-skill list has no such rule: a technical response that is the
\* token NONE yields the one-item list holding that token as written.
C10_NoneIsEmptyForSoftList ==
    last.fn = "extract_skills_from_text" /\ last.result.kind = "return" =>
        /\ (last.args[2].b = "text" /\ IsNoneToken(Trimmed(last.args[2])) =>
              last.result.value[1].soft_skills = <<>>)
        /\ (last.args[1].b = "text" /\ IsNoneToken(Trimmed(last.args[1])) =>
              last.result.value[1].tech_skills = <<Trimmed(last.args[1])>>)

\* the soft-skill response was " NoNe\n" and the technical one "none"
C10_Witness ==
    /\ last.fn = "extract_skills_from_text"
    /\ last.result.kind = "return"
    /\ last.args[2].text = <<" ", "N", "o", "N", "e", "\n">>
    /\ last.args[1].text = <<"n", "o", "n", "e">>
    /\ pc = "embedding"

\* the comma-separated pieces of a text, by where they start
CommaAt(text) == {i \in 1..Len(text) : text[i] = ","}

PieceStarts(text) == {1} \cup {i + 1 : i \in CommaAt(text)}

Least(S) == CHOOSE m \in S : \A x \in S : m <= x

PieceFrom(text, p) ==
    SubSeq(text, p, Least({i \in CommaAt(text) : i >= p} \cup {Len(text) + 1}) - 1)

KeptStarts(text) == {p \in PieceStarts(text) : ~IsBlank(PieceFrom(text, p))}

\* the start of the j-th piece that is not blank
KeptStart(text, j) ==
    CHOOSE p \in KeptStarts(text) :
        Cardinality({q \in KeptStarts(text) : q <= p}) = j

\* an entry with at least one character and no whitespace at either end
IsTrimmedEntry(e) ==
    /\ e # <<>>
    /\ e[1] \notin Whitespace
    /\ e[Len(e)] \notin Whitespace

\* list holds the non-blank pieces of text, trimmed, in the order of the text
InOutputOrder(list, text) ==
    /\ Len(list) = Cardinality(KeptStarts(text))
    /\ \A j \in 1..Len(list) :
          /\ IsTrimmedEntry(list[j])
          /\ list[j] = strip(PieceFrom(text, KeptStart(text, j)))

NoTwoEqual(list) ==
    \A i \in 1..Len(list), j \in 1..Len(list) : i # j => list[i] # list[j]

SkillPairReturned ==
    last.fn = "extract_skills_from_text" /\ last.result.kind = "return"

DepartmentsListing(career_field) ==
    {department_mapping[i].department :
        i \in {n \in 1..Len(department_mapping) :
                 /\ career_field.t = "str"
                 /\ career_field.v \in department_mapping[n].fields}}

\* the career field extract_cv_info passed to the resolver: the value under
\* "career_field" of the object the model answered, "unknown" when it has none
ResolvedField == dict_get(last.args[1].content.obj, "career_field", JStr("unknown"))

\* C12: get_department_for_career_field is total and decided by the static
\* mapping alone: a career field the mapping lists is listed by exactly one
\* department and resolves to it, every other value (the sentinel "unknown",
\* null, a name that is no field) resolves to "Unknown Department"; the
\* resolution issues no call to the model host, so extract_cv_info has
\* issued its one chat call and nothing else.
C12_DepartmentByStaticMapping ==
    /\ \A f \in MappedFields : Cardinality(DepartmentsListing(JStr(f))) = 1
    /\ (last.fn = "extract_cv_info" /\ last.result.kind = "return" =>
          LET department == last.result.value[1].department IN
          /\ department.t = "str"
          /\ IF DepartmentsListing(ResolvedField) = {}
             THEN department.v = "Unknown Department"
             ELSE DepartmentsListing(ResolvedField) = {department.v}
          /\ last.result.calls = <<"chat">>
          /\ last.result.resolver = 1
          /\ resolverCalls = 1
          /\ netCalls = <<"generate", "generate", "embeddings", "chat">>)

\* a field of the last department of the mapping was resolved
C12_Witness ==
    /\ last.fn = "extract_cv_info"
    /\ last.result.kind = "return"
    /\ ResolvedField = JStr("CEO's Executive Office")
    /\ last.result.value[1].department = JStr("Ceo's Office")

\* the sentinel, by default: the object has no career_field
C12_UnknownReached ==
    /\ last.fn = "extract_cv_info"
    /\ last.result.kind = "return"
    /\ "career_field" \notin DOMAIN last.args[1].content.obj
    /\ last.result.value[1].department = JStr("Unknown Department")

====
